---- MODULE Spec2Model ----
(***************************************************************************)
(* Model of the router of ecromaneli-golang/http (package webserver):      *)
(* route registration (Server.MultiHandle, routesByPattern.Add,            *)
(* route.extractAndSetPattern) and request resolution (the handlerFunc of  *)
(* MultiHandle, routesByPattern.getRoute, route.matchURLAndGetParam,       *)
(* matchTokens), as written in src/webserver/adt_route.go and              *)
(* src/webserver/webserver.go, and of what a handler does with its Request *)
(* and Response (Param, Body, IsDone, Flush, panics caught by              *)
(* catchAllServerErrors), as written in src/webserver/adt_request.go,      *)
(* src/webserver/adt_response.go and src/webserver/adt_error.go.           *)
(*                                                                         *)
(* A Go string or []byte is a sequence of one-character strings, so that   *)
(* the byte-level code (IndexByte, Split, slicing, key[0], pattern[len-2]) *)
(* is modelled as it runs.  Go indexes are kept 0-based in the operators   *)
(* named after Go functions; Slice and At convert.                         *)
(*                                                                         *)
(* A runtime panic that is not a *serverError (index out of range, slice   *)
(* bounds out of range) is the status StatusInternalServerError, which is  *)
(* what catchAllServerErrors answers for it.                               *)
(***************************************************************************)
EXTENDS Integers, Sequences, FiniteSets, TLC

VARIABLES calls, routes, mux, muxCalls, req, res, request, inflight,
          response, handling, ret

vars == <<calls, routes, mux, muxCalls, req, res, request, inflight,
          response, handling, ret>>

\* ------------------------------------------------------------------------
\* HTTP status codes used by the router (net/http constants).
StatusOK == 200
StatusBadRequest == 400
StatusNotFound == 404
StatusMethodNotAllowed == 405
StatusInternalServerError == 500

\* A []string of methods: nil, or a list (an empty list is not nil).
NilMethods == [isNil |-> TRUE, list |-> <<>>]

MethodList(list) == [isNil |-> FALSE, list |-> list]

\* ------------------------------------------------------------------------
\* Bounds of the model.
MaxTokens == 3
MaxSegs == 3
MaxLabels == 3
MaxRoutes == 2
MaxPairs == 2

\* ------------------------------------------------------------------------
\* Byte-slice primitives.

\* s[i:j]
Slice(s, i, j) == SubSeq(s, i + 1, j)

\* s[i]
At(s, i) == s[i + 1]

\* bytes.IndexByte / strings.IndexByte
IndexByte(s, c) ==
    IF \E i \in 1..Len(s) : s[i] = c
    THEN (CHOOSE i \in 1..Len(s) : s[i] = c /\ \A j \in 1..(i - 1) : s[j] # c) - 1
    ELSE -1

\* bytes.IndexAny
IndexAny(s, chars) ==
    IF \E i \in 1..Len(s) : s[i] \in chars
    THEN (CHOOSE i \in 1..Len(s) : s[i] \in chars /\ \A j \in 1..(i - 1) : s[j] \notin chars) - 1
    ELSE -1

\* bytes.LastIndexByte / strings.LastIndexByte
LastIndexByte(s, c) ==
    IF \E i \in 1..Len(s) : s[i] = c
    THEN (CHOOSE i \in 1..Len(s) : s[i] = c /\ \A j \in (i + 1)..Len(s) : s[j] # c) - 1
    ELSE -1

\* bytes.Split(s, sep) for a one-byte separator: never empty, Split("") = [""].
RECURSIVE Split(_, _)
Split(s, c) ==
    LET i == IndexByte(s, c)
    IN  IF i = -1 THEN <<s>>
        ELSE <<Slice(s, 0, i)>> \o Split(Slice(s, i + 1, Len(s)), c)

\* reversePattern: the slice reversed in place.
reversePattern(p) == [i \in 1..Len(p) |-> p[Len(p) + 1 - i]]

\* The two dynamic symbols "{*".
dynamicSymbols == {"{", "*"}

\* Mutant of trimBegin: the leading '/' is never skipped.
trimBeginKeepsSlash(data, begin) == begin

\* Mutant of trimEnd: the trailing '/' is never dropped.
trimEndKeepsSlash(data) == Len(data)

\* trimSlashes: the indexes begin and end it slices with.
trimBegin(data, begin) ==
    IF At(data, begin) = "/" /\ Len(data) > 1 THEN begin + 1 ELSE begin

trimEnd(data) ==
    IF At(data, Len(data) - 1) = "/" THEN Len(data) - 1 ELSE Len(data)

\* trimSlashes panics (slice bounds out of range) when begin passes end.
trimSlashesPanics(data, begin) ==
    /\ Len(data) > begin
    /\ trimBegin(data, begin) > trimEnd(data)

\* trimSlashes: data itself when it is not longer than begin.
trimSlashes(data, begin) ==
    IF Len(data) <= begin THEN data
    ELSE Slice(data, trimBegin(data, begin), trimEnd(data))

\* Mutant of splitHostPort: the port is left on the host.
splitHostPortKeepsPort(hostPort) == hostPort

\* splitHostPort: the host up to the last ':'.
splitHostPort(hostPort) ==
    LET colon == LastIndexByte(hostPort, ":")
    IN  IF colon = -1 THEN hostPort ELSE Slice(hostPort, 0, colon)

\* isOptional reads pattern[len(pattern)-2]: index out of range on a token
\* of fewer than two bytes.
isOptionalPanics(pattern) == Len(pattern) < 2

isOptional(pattern) == At(pattern, Len(pattern) - 2) = "?"

\* parsePathParam: the name of the parameter (nil for a required parameter
\* against an empty segment).
parsePathParam(pattern, path) ==
    LET isOpt == isOptional(pattern)
        end == IF isOpt THEN Len(pattern) - 2 ELSE Len(pattern) - 1
    IN  IF ~isOpt /\ Len(path) = 0
        THEN [name |-> <<>>, value |-> path, isOpt |-> isOpt]
        ELSE [name |-> Slice(pattern, 1, end), value |-> path, isOpt |-> isOpt]

\* A map[string]string: a function from names to values.
EmptyParams == [n \in {} |-> <<>>]

SetParam(params, name, value) ==
    [n \in (DOMAIN params) \cup {name} |-> IF n = name THEN value ELSE params[n]]

\* ------------------------------------------------------------------------
\* matchTokens, "the path finishes before the pattern" (index ==
\* tokensLength): the status returned for the pattern token key.
endOfTokensStatus(key) ==
    IF isOptionalPanics(key) THEN StatusInternalServerError
    ELSE IF isOptional(key) THEN 0
    ELSE StatusNotFound

\* Mutant of emptyValueStatus: an empty required value is a not-found.
emptyValueIsNotFound(isOpt) == IF ~isOpt THEN StatusNotFound ELSE 0

\* matchTokens, case '{' with an empty value: the status returned, 0 when
\* the loop goes on.
emptyValueStatus(isOpt) == IF ~isOpt THEN StatusBadRequest ELSE 0

\* Mutant of isWildcardAll: '**' is taken for '*'.
neverWildcardAll(key) == FALSE

\* matchTokens, case '*': whether the token is '**'.
isWildcardAll(key) == Len(key) > 1 /\ At(key, 1) = "*"

\* Mutant of endOfPatternStatus: segments left over are accepted.
endOfPatternAccepts(patternLength, tokensLength) == 0

\* matchTokens, after the loop: the status returned when every pattern
\* token was passed.
endOfPatternStatus(patternLength, tokensLength) ==
    IF patternLength = tokensLength THEN 0 ELSE StatusNotFound

\* matchTokens: the loop over tokensPattern from position index, with the
\* bindings written so far.  The result is the status it returns (0 is a
\* match) and the params map as it left it.
RECURSIVE matchFrom(_, _, _, _)
matchFrom(tokensPattern, tokens, params, index) ==
    IF index = Len(tokensPattern)
    THEN [status |-> endOfPatternStatus(Len(tokensPattern), Len(tokens)),
          params |-> params]
    ELSE
      LET key == At(tokensPattern, index)
      IN  IF index = Len(tokens)
          THEN [status |-> endOfTokensStatus(key), params |-> params]
          ELSE IF Len(key) = 0
          THEN [status |-> StatusInternalServerError, params |-> params]
          ELSE IF At(key, 0) = "*"
          THEN IF isWildcardAll(key)
               THEN [status |-> 0, params |-> params]
               ELSE matchFrom(tokensPattern, tokens, params, index + 1)
          ELSE IF At(key, 0) = "{"
          THEN IF isOptionalPanics(key)
               THEN [status |-> StatusInternalServerError, params |-> params]
               ELSE LET pp == parsePathParam(key, At(tokens, index))
                    IN  IF Len(pp.value) # 0
                        THEN matchFrom(tokensPattern, tokens,
                                       SetParam(params, pp.name, pp.value), index + 1)
                        ELSE IF emptyValueStatus(pp.isOpt) # 0
                        THEN [status |-> emptyValueStatus(pp.isOpt), params |-> params]
                        ELSE matchFrom(tokensPattern, tokens, params, index + 1)
          ELSE IF key # At(tokens, index)
          THEN [status |-> StatusNotFound, params |-> params]
          ELSE matchFrom(tokensPattern, tokens, params, index + 1)

matchTokens(tokensPattern, tokens, params) ==
    matchFrom(tokensPattern, tokens, params, 0)

\* ------------------------------------------------------------------------
\* route.extractAndSetPattern: the compiled form of a raw pattern.
extractAndSetPattern(pattern) ==
    LET slash == IndexByte(pattern, "/")
    IN  IF slash = -1
        THEN [dynamicHost |-> reversePattern(Split(pattern, ".")),
              staticPattern |-> <<>>,
              dynamicPattern |-> <<>>]
        ELSE
          LET host == IF slash > 0
                      THEN reversePattern(Split(Slice(pattern, 0, slash), "."))
                      ELSE <<>>
              rest == IF slash > 0 THEN Slice(pattern, slash, Len(pattern)) ELSE pattern
              dyn == IndexAny(rest, dynamicSymbols)
          IN  IF dyn = -1
              THEN [dynamicHost |-> host,
                    staticPattern |-> trimSlashes(rest, 0),
                    dynamicPattern |-> <<>>]
              ELSE
                LET dynamicPart == Slice(rest, dyn, Len(rest))
                    staticPart == Slice(rest, 0, dyn)
                    staticCut == Slice(staticPart, 0, LastIndexByte(staticPart, "/") + 1)
                IN  [dynamicHost |-> host,
                     staticPattern |-> trimSlashes(staticCut, 0),
                     dynamicPattern |-> Split(trimSlashes(dynamicPart, 0), "/")]

\* newRoute: the route of a registration; the handler is an opaque value.
newRoute(methods, pattern, handler) ==
    LET c == extractAndSetPattern(pattern)
    IN  [dynamicHost |-> c.dynamicHost,
         staticPattern |-> c.staticPattern,
         dynamicPattern |-> c.dynamicPattern,
         methods |-> methods,
         handler |-> handler]

\* The bucket of a static key: a missing key of the Go map is a nil slice.
Bucket(table, key) == IF key \in DOMAIN table THEN table[key] ELSE <<>>

\* routesByPattern.Add: the route appended to the bucket of its static key.
Add(table, methods, pattern, handler) ==
    LET r == newRoute(methods, pattern, handler)
        k == r.staticPattern
    IN  [key \in (DOMAIN table) \cup {k} |->
            IF key = k THEN Append(Bucket(table, k), r) ELSE table[key]]

\* Mutant of acceptsMethod: the comparison of the loop is inverted.
acceptsMethodInverted(route, method) ==
    IF route.methods.isNil THEN TRUE
    ELSE \E i \in 1..Len(route.methods.list) : route.methods.list[i] # method

\* route.acceptsMethod
acceptsMethod(route, method) ==
    IF route.methods.isNil THEN TRUE
    ELSE \E i \in 1..Len(route.methods.list) : route.methods.list[i] = method

\* Mutant of makeParams: the map of a call is not new, it holds a binding
\* that an earlier call wrote.
staleParams == [n \in {<<"x">>} |-> <<"a">>]

\* route.matchURLAndGetParam, params = make(map[string]string): the map of
\* each call is a new, empty one.
makeParams == EmptyParams

\* Mutant of hostTokensReversed: the in-place reversal is made on the
\* route's own dynamicHost, whose backing array the table shares.
dynamicHostReversed(route, hostPort) ==
    [route |-> [route EXCEPT !.dynamicHost = reversePattern(@)],
     hostTokens |-> Split(splitHostPort(hostPort), ".")]

\* route.matchURLAndGetParam, the in-place reversePattern(hostTokens): it
\* writes the labels split from a copy of the request's host, and leaves the
\* route as it is.
hostTokensReversed(route, hostPort) ==
    [route |-> route,
     hostTokens |-> reversePattern(Split(splitHostPort(hostPort), "."))]

\* The host part of route.matchURLAndGetParam: the status of the host match
\* and the bindings it wrote (status 0 with no bindings without host pattern).
matchHost(route, hostPort) ==
    IF Len(route.dynamicHost) > 0
    THEN LET t == hostTokensReversed(route, hostPort)
         IN  matchTokens(t.route.dynamicHost, t.hostTokens, makeParams)
    ELSE [status |-> 0, params |-> makeParams]

\* route.matchURLAndGetParam: the status and the params it returns (nil is
\* the empty map: setPathParams ranges over it the same way).
matchURLAndGetParam(route, hostPort, path) ==
    LET pathBytes == trimSlashes(path, 0)
        h == matchHost(route, hostPort)
    IN  IF h.status # 0
        THEN [status |-> h.status, params |-> EmptyParams]
        ELSE IF Len(pathBytes) = Len(route.staticPattern) /\ Len(route.dynamicPattern) = 0
        THEN [status |-> 0, params |-> EmptyParams]
        ELSE IF trimSlashesPanics(pathBytes, Len(route.staticPattern))
        THEN [status |-> StatusInternalServerError, params |-> EmptyParams]
        ELSE matchTokens(route.dynamicPattern,
                         Split(trimSlashes(pathBytes, Len(route.staticPattern)), "/"),
                         h.params)

\* The outcome of one candidate of getRoute's loop: 0 when it is returned,
\* else the status it fails with.
candidateStatus(route, method, hostPort, path) ==
    LET m == matchURLAndGetParam(route, hostPort, path)
    IN  IF m.status # 0 THEN m.status
        ELSE IF ~acceptsMethod(route, method) THEN StatusMethodNotAllowed
        ELSE 0

\* routesByPattern.getRoute: the loop from candidate i (1-based) with the
\* errorStatus so far and the outcomes of the candidates tried so far.  A
\* runtime panic of a candidate leaves the loop at once.
RECURSIVE getRouteFrom(_, _, _, _, _, _, _)
getRouteFrom(bucket, i, errorStatus, tried, method, hostPort, path) ==
    IF i > Len(bucket)
    THEN [status |-> errorStatus, index |-> 0, params |-> EmptyParams, tried |-> tried]
    ELSE
      LET m == matchURLAndGetParam(bucket[i], hostPort, path)
      IN  IF m.status = StatusInternalServerError
          THEN [status |-> StatusInternalServerError, index |-> 0,
                params |-> EmptyParams, tried |-> Append(tried, m.status)]
          ELSE IF m.status # 0
          THEN getRouteFrom(bucket, i + 1,
                            IF errorStatus = StatusNotFound THEN m.status ELSE errorStatus,
                            Append(tried, m.status), method, hostPort, path)
          ELSE IF ~acceptsMethod(bucket[i], method)
          THEN getRouteFrom(bucket, i + 1, StatusMethodNotAllowed,
                            Append(tried, StatusMethodNotAllowed), method, hostPort, path)
          ELSE [status |-> 0, index |-> i, params |-> m.params, tried |-> Append(tried, 0)]

getRoute(table, method, pattern, hostPort, path) ==
    getRouteFrom(Bucket(table, pattern), 1, StatusNotFound, <<>>, method, hostPort, path)

\* ------------------------------------------------------------------------
\* The http.ServeMux of the server: the handle patterns registered by
\* MultiHandle, each with the static key its handlerFunc captured.

\* mux.HandleFunc("/" + key) and, when that is longer than "/", also
\* mux.HandleFunc("/" + key + "/").
muxHandleFunc(m, key) ==
    LET handlePattern == <<"/">> \o key
        added == IF Len(handlePattern) > 1
                 THEN {handlePattern, handlePattern \o <<"/">>}
                 ELSE {handlePattern}
    IN  [p \in (DOMAIN m) \cup added |-> IF p \in added THEN key ELSE m[p]]

IsPrefix(p, s) == Len(p) <= Len(s) /\ Slice(s, 0, Len(p)) = p

\* The patterns of the mux that match a path: the path itself, and every
\* pattern ending in '/' that is a prefix of the path.
muxCandidates(m, path) ==
    {p \in DOMAIN m : p = path \/ (At(p, Len(p) - 1) = "/" /\ IsPrefix(p, path))}

\* Mutant of muxHandler: the shortest matching pattern is picked.
muxHandlerShortest(m, path) ==
    LET c == muxCandidates(m, path)
    IN  IF c = {} THEN [found |-> FALSE, key |-> <<>>]
        ELSE [found |-> TRUE,
              key |-> m[CHOOSE p \in c : \A q \in c : Len(p) <= Len(q)]]

\* The handler the mux picks: the longest matching pattern; none when no
\* pattern matches (the mux then answers 404 itself).
muxHandler(m, path) ==
    LET c == muxCandidates(m, path)
    IN  IF c = {} THEN [found |-> FALSE, key |-> <<>>]
        ELSE [found |-> TRUE,
              key |-> m[CHOOSE p \in c : \A q \in c : Len(q) <= Len(p)]]

\* ------------------------------------------------------------------------
\* State.
\*   calls   the MultiHandle calls made so far, in order (methods, pattern);
\*           the handler of call i is the opaque value i
\*   routes  Server.routes, the routesByPattern map
\*   mux     Server.mux
\*   muxCalls the patterns of the mux.HandleFunc calls made so far, in order
\*   req     the last request served, as the client sent it (method, host,
\*           path, body)
\*   res     how the server resolved it: the route whose handler is called
\*           (status 200) or the status of the failure
\*   request the *Request of the last request served: of Raw, the query,
\*           the content type, what reading Raw.Body yields from here on
\*           (rawBody) and whether Raw.Context() is done (ctxDone); and the
\*           fields params, readParams, body, readBody and isDone
\*   inflight the requests whose handlerFunc runs concurrently, each with
\*           the locals of its getRoute call
\*   response the http.ResponseWriter of the last request served (whether
\*           the header is written, its status, the bytes written, the
\*           number of flushes, whether it is an http.Flusher) and the
\*           field flusher of the *Response (set or nil)
\*   handling whether the route's handler is running, and the value the
\*           handlerFunc panicked with, if it did
\*   ret     the last call the route's handler made on the request or the
\*           response, and what it returned

NoRequest == [method |-> "", host |-> <<>>, path |-> <<>>, body |-> <<>>]

\* newRequest: the *Request of an http.Request, nothing read yet.
newRequest(rawQuery, contentType, body) ==
    [rawQuery |-> rawQuery, contentType |-> contentType, rawBody |-> body,
     ctxDone |-> FALSE,
     params |-> EmptyParams, readParams |-> FALSE,
     body |-> <<>>, readBody |-> FALSE, isDone |-> FALSE]

\* newResponse: the *Response of an http.ResponseWriter, nothing written.
newResponse(isFlusher) ==
    [wroteHeader |-> FALSE, status |-> 0, written |-> <<>>, flushes |-> 0,
     isFlusher |-> isFlusher, flusher |-> FALSE]

\* http.ResponseWriter.WriteHeader: the first call sends the status, a later
\* one changes nothing.
WriteHeader(rw, status) ==
    IF rw.wroteHeader THEN rw
    ELSE [rw EXCEPT !.wroteHeader = TRUE, !.status = status]

\* Response.Status
Status(rw, status) == WriteHeader(rw, status)

\* Response.Write: http.ResponseWriter.Write sends the header with status
\* 200 if none was sent, then the data.
Write(rw, data) ==
    [WriteHeader(rw, StatusOK) EXCEPT !.written = @ \o data]

\* Response.WriteText
WriteText(rw, text) == Write(rw, text)

\* Request.IsDone: what it returns, and the request after the call (isDone
\* is set once the context is seen done).
IsDone(rq) ==
    LET done == rq.isDone \/ rq.ctxDone
    IN  [done |-> done, request |-> [rq EXCEPT !.isDone = done]]

\* The values of a panic: none, a *serverError with its status code and
\* message, or any other value (a runtime error, an error, a string).
NoPanic == [kind |-> "nil", statusCode |-> 0, message |-> <<>>]

RuntimeError == [kind |-> "other", statusCode |-> 0, message |-> <<>>]

\* serverError.setDefaults: status code 0 becomes 500.
setDefaults(se) ==
    [se EXCEPT !.statusCode = IF @ = 0 THEN StatusInternalServerError ELSE @]

\* NewError: a *serverError with the default status code.
NewError == setDefaults([kind |-> "serverError", statusCode |-> 0, message |-> <<>>])

\* NewHTTPError
NewHTTPError(statusCode) ==
    setDefaults([kind |-> "serverError", statusCode |-> statusCode, message |-> <<>>])

StatusNotImplemented == 501

\* Mutant of catchAllServerErrors: the error response is written whether or
\* not the request is done.
catchAllWritesWhenDone(rq, rw, err) ==
    IF err.kind = "nil" THEN [request |-> rq, response |-> rw]
    ELSE
      LET customErr == IF err.kind = "serverError" THEN err ELSE NewError
      IN  [request |-> IsDone(rq).request,
           response |-> WriteText(Status(rw, customErr.statusCode), customErr.message)]

\* catchAllServerErrors, deferred by the handlerFunc: the request and the
\* response after it has recovered the value err.
catchAllServerErrors(rq, rw, err) ==
    IF err.kind = "nil" THEN [request |-> rq, response |-> rw]
    ELSE
      LET customErr == IF err.kind = "serverError" THEN err ELSE NewError
          d == IsDone(rq)
      IN  [request |-> d.request,
           response |-> IF ~d.done
                        THEN WriteText(Status(rw, customErr.statusCode), customErr.message)
                        ELSE rw]

\* Mutant of Flush: the data is written without asking IsDone.
FlushUngated(rq, rw, data) ==
    IF ~rw.flusher /\ ~rw.isFlusher
    THEN [request |-> rq, response |-> rw, failed |-> FALSE,
          err |-> NewHTTPError(StatusNotImplemented)]
    ELSE [request |-> rq,
          response |-> [Write(rw, data) EXCEPT !.flusher = TRUE, !.flushes = @ + 1],
          failed |-> FALSE, err |-> NoPanic]

\* Response.Flush (FlushText and FlushEvent end in it): the request and the
\* response after the call, whether it returned an error, and the value it
\* panicked with (MustSupportFlusher, when the writer is no http.Flusher).
Flush(rq, rw, data) ==
    LET d == IsDone(rq)
    IN  IF d.done
        THEN [request |-> d.request, response |-> rw, failed |-> TRUE, err |-> NoPanic]
        ELSE IF ~rw.flusher /\ ~rw.isFlusher
        THEN [request |-> d.request, response |-> rw, failed |-> FALSE,
              err |-> NewHTTPError(StatusNotImplemented)]
        ELSE [request |-> d.request,
              response |-> [Write(rw, data) EXCEPT !.flusher = TRUE, !.flushes = @ + 1],
              failed |-> FALSE, err |-> NoPanic]

NoCall == [op |-> "", done |-> FALSE, failed |-> FALSE, bytes |-> <<>>, wrote |-> 0]

\* url.QueryUnescape on text without '%': each '+' is a space.
QueryUnescape(t) == [i \in 1..Len(t) |-> IF t[i] = "+" THEN " " ELSE t[i]]

\* url.ParseQuery: the parts between '&', empty parts skipped, each cut at
\* its first '=' into key and value (no '=': the value is empty); the values
\* of a key in the order of the query.
RECURSIVE parseQueryParts(_, _)
parseQueryParts(parts, m) ==
    IF Len(parts) = 0 THEN m
    ELSE
      LET part == parts[1]
          eq == IndexByte(part, "=")
          key == QueryUnescape(IF eq = -1 THEN part ELSE Slice(part, 0, eq))
          value == QueryUnescape(IF eq = -1 THEN <<>> ELSE Slice(part, eq + 1, Len(part)))
      IN  IF part = <<>> THEN parseQueryParts(Tail(parts), m)
          ELSE parseQueryParts(Tail(parts),
                 [k \in (DOMAIN m) \cup {key} |->
                    IF k = key
                    THEN (IF key \in DOMAIN m THEN Append(m[key], value) ELSE <<value>>)
                    ELSE m[k]])

ParseQuery(query) == parseQueryParts(Split(query, "&"), [k \in {} |-> <<>>])

\* Request.copyMapToParams: the values of each key set, or appended to the
\* values params already has for it.
copyMapToParams(params, m) ==
    [key \in (DOMAIN params) \cup (DOMAIN m) |->
       IF key \notin DOMAIN m THEN params[key]
       ELSE IF key \notin DOMAIN params \/ Len(params[key]) = 0 THEN m[key]
       ELSE params[key] \o m[key]]

\* Request.parseQueryParams
parseQueryParams(params, rawQuery) == copyMapToParams(params, ParseQuery(rawQuery))

ContentTypeFormUrlEncoded == "application/x-www-form-urlencoded"

\* http.Request.ParseForm: PostForm is the parsed body of a POST, PUT or
\* PATCH request, and empty for any other method.
PostForm(method, body) ==
    IF method \in {"POST", "PUT", "PATCH"} THEN ParseQuery(body) ELSE [k \in {} |-> <<>>]

\* What http.Request.ParseForm leaves to read of Raw.Body: nothing of the
\* body of a POST, PUT or PATCH request, which it reads to the end.
afterParseForm(method, body) ==
    IF method \in {"POST", "PUT", "PATCH"} THEN <<>> ELSE body

\* Request.parseBodyParams with Request.parseFormParams: the body is read
\* when the Content-Type header is exactly the form-urlencoded one.
parseBodyParams(params, method, contentType, body) ==
    IF contentType = ContentTypeFormUrlEncoded
    THEN copyMapToParams(params, PostForm(method, body))
    ELSE params

\* Request.Params
Params(paramName) ==
    IF paramName \in DOMAIN request.params THEN request.params[paramName] ELSE <<>>

\* Request.Param
Param(paramName) ==
    LET param == Params(paramName)
    IN  IF Len(param) = 0 THEN <<>> ELSE param[1]

NoResponse == [served |-> FALSE, status |-> 0, handler |-> 0,
               params |-> EmptyParams, key |-> <<>>, tried |-> <<>>]

Init ==
    /\ calls = <<>>
    /\ routes = [k \in {} |-> <<>>]
    /\ mux = [p \in {} |-> <<>>]
    /\ muxCalls = <<>>
    /\ req = NoRequest
    /\ res = NoResponse
    /\ request = newRequest(<<>>, "", <<>>)
    /\ inflight = <<>>
    /\ response = newResponse(TRUE)
    /\ handling = [running |-> FALSE, err |-> NoPanic]
    /\ ret = NoCall

\* Server.MultiHandle: the patterns it calls mux.HandleFunc with for a new
\* static key, in order.
handlePatterns(key) ==
    LET handlePattern == <<"/">> \o key
    IN  IF Len(handlePattern) > 1
        THEN <<handlePattern, handlePattern \o <<"/">> >>
        ELSE <<handlePattern>>

\* Server.addRoute + Server.MultiHandle on a server (routes, mux): the
\* route is added to its bucket, and the handlerFunc of a new static key is
\* registered with the mux.
Registered(server, methods, pattern, handler) ==
    LET added == Add(server.routes, methods, pattern, handler)
        key == newRoute(methods, pattern, handler).staticPattern
        isNewStaticPattern == Len(added[key]) = 1
    IN  [routes |-> added,
         mux |-> IF isNewStaticPattern THEN muxHandleFunc(server.mux, key)
                 ELSE server.mux,
         handled |-> IF isNewStaticPattern THEN handlePatterns(key) ELSE <<>>]

MultiHandle(methods, pattern) ==
    /\ LET s == Registered([routes |-> routes, mux |-> mux], methods, pattern,
                           Len(calls) + 1)
       IN  /\ routes' = s.routes
           /\ mux' = s.mux
           /\ muxCalls' = muxCalls \o s.handled
    /\ calls' = Append(calls, [methods |-> methods, pattern |-> pattern])
    /\ UNCHANGED <<req, res, request, inflight, response, handling, ret>>

\* Request.setPathParams: each binding becomes the first value of its name.
setPathParams(pathParams) == [n \in DOMAIN pathParams |-> <<pathParams[n]>>]

\* What the server answers to a request: the mux picks the handlerFunc of a
\* static key, getRoute resolves the route, and either the route's handler
\* runs (status 200, the handler's own) or catchAllServerErrors answers
\* the status of the panic.
Respond(table, m, method, hostPort, path) ==
    LET h == muxHandler(m, path)
    IN  IF ~h.found
        THEN [served |-> TRUE, status |-> StatusNotFound, handler |-> 0,
              params |-> EmptyParams, key |-> <<>>, tried |-> <<>>]
        ELSE
          LET r == getRoute(table, method, h.key, hostPort, path)
          IN  IF r.status = 0
              THEN [served |-> TRUE, status |-> StatusOK,
                    handler |-> Bucket(table, h.key)[r.index].handler,
                    params |-> setPathParams(r.params),
                    key |-> h.key, tried |-> r.tried]
              ELSE [served |-> TRUE, status |-> r.status, handler |-> 0,
                    params |-> EmptyParams, key |-> h.key, tried |-> r.tried]

\* The value getRoute panics with: none when it returns a route, the
\* *serverError of NewHTTPError(errorStatus) when no candidate is accepted,
\* a runtime error when a candidate's matching faults.
getRoutePanic(status) ==
    IF status = StatusOK THEN NoPanic
    ELSE IF status = StatusInternalServerError THEN RuntimeError
    ELSE NewHTTPError(status)

\* One request served by the mux and the handlerFunc of MultiHandle, up to
\* the call of the route's handler: newRequest, newResponse, getRoute and,
\* when a route is resolved, setPathParams; when getRoute panics, the
\* deferred catchAllServerErrors.  A path with no pattern in the mux is
\* answered by the mux (http.NotFound).  cancelled: the context of the
\* request is done before the handlerFunc runs; isFlusher: the writer of
\* the connection is an http.Flusher.
serve(method, hostPort, path, rawQuery, contentType, body, cancelled, isFlusher) ==
    /\ req' = [method |-> method, host |-> hostPort, path |-> path, body |-> body]
    /\ res' = Respond(routes, mux, method, hostPort, path)
    /\ handling' = [running |-> res'.status = StatusOK,
                    err |-> IF muxHandler(mux, path).found
                            THEN getRoutePanic(res'.status) ELSE NoPanic]
    /\ LET rq == [newRequest(rawQuery, contentType, body) EXCEPT
                    !.params = res'.params, !.ctxDone = cancelled]
           c == catchAllServerErrors(rq, newResponse(isFlusher), handling'.err)
       IN  /\ request' = c.request
           /\ response' = IF muxHandler(mux, path).found THEN c.response
                          ELSE WriteText(Status(c.response, StatusNotFound),
                                         <<"404 page not found">>)
    /\ ret' = NoCall
    /\ UNCHANGED <<calls, routes, mux, muxCalls, inflight>>

\* A request of a client that stays, on a connection that can flush.
handlerFunc(method, hostPort, path, rawQuery, contentType, body) ==
    serve(method, hostPort, path, rawQuery, contentType, body, FALSE, TRUE)

\* A request without query string and without body.
ServeHTTP(method, hostPort, path) ==
    handlerFunc(method, hostPort, path, <<>>, "", <<>>)

\* Request.parseParams, run by the first Param, Params or AllParams call of
\* the route's handler: the query values, then the body values, are copied
\* into params.
parseParams ==
    /\ handling.running
    /\ ~request.readParams
    /\ request' = [request EXCEPT
                     !.readParams = TRUE,
                     !.params = parseBodyParams(parseQueryParams(@, request.rawQuery),
                                                req.method, request.contentType,
                                                request.rawBody),
                     !.rawBody = IF request.contentType = ContentTypeFormUrlEncoded
                                 THEN afterParseForm(req.method, @)
                                 ELSE @]
    /\ ret' = [NoCall EXCEPT !.op = "Param"]
    /\ UNCHANGED <<calls, routes, mux, muxCalls, req, res, inflight, response, handling>>

\* Request.Body, called by the route's handler: the first call reads
\* Raw.Body to the end, keeps what it read and puts a reader of it in place
\* of Raw.Body; every call returns what the first one read.
Body ==
    /\ handling.running
    /\ LET after == IF request.readBody THEN request
                    ELSE [request EXCEPT !.readBody = TRUE, !.body = request.rawBody]
       IN  /\ request' = after
           /\ ret' = [NoCall EXCEPT !.op = "Body", !.bytes = after.body]
    /\ UNCHANGED <<calls, routes, mux, muxCalls, req, res, inflight, response, handling>>

\* The context of the request is done: the client has gone away, or the
\* server is shut down.
Cancel ==
    /\ res.served
    /\ ~request.ctxDone
    /\ request' = [request EXCEPT !.ctxDone = TRUE]
    /\ UNCHANGED <<calls, routes, mux, muxCalls, req, res, inflight, response, handling, ret>>

\* Request.IsDone, called by the route's handler.
callIsDone ==
    /\ handling.running
    /\ LET d == IsDone(request)
       IN  /\ request' = d.request
           /\ ret' = [NoCall EXCEPT !.op = "IsDone", !.done = d.done]
    /\ UNCHANGED <<calls, routes, mux, muxCalls, req, res, inflight, response, handling>>

\* The handlerFunc ends with the panic err raised by the route's handler:
\* the deferred catchAllServerErrors recovers it.
panics(err) ==
    LET c == catchAllServerErrors(request, response, err)
    IN  /\ request' = c.request
        /\ response' = c.response
        /\ handling' = [running |-> FALSE, err |-> err]

\* Response.Flush, FlushText or FlushEvent, called by the route's handler
\* with data of at least one byte; a panic of MustSupportFlusher ends the
\* handlerFunc.
callFlush(data) ==
    /\ handling.running
    /\ LET f == Flush(request, response, data)
       IN  IF f.err.kind = "nil"
           THEN /\ request' = f.request
                /\ response' = f.response
                /\ ret' = [NoCall EXCEPT !.op = "Flush", !.failed = f.failed,
                             !.wrote = Len(f.response.written) - Len(response.written)]
                /\ UNCHANGED handling
           ELSE /\ LET c == catchAllServerErrors(f.request, f.response, f.err)
                   IN  /\ request' = c.request
                       /\ response' = c.response
                /\ handling' = [running |-> FALSE, err |-> f.err]
                /\ ret' = [NoCall EXCEPT !.op = "Flush"]
    /\ UNCHANGED <<calls, routes, mux, muxCalls, req, res, inflight>>

\* The route's handler panics with a value of its own.
handlerPanics(err) ==
    /\ handling.running
    /\ panics(err)
    /\ UNCHANGED <<calls, routes, mux, muxCalls, req, res, inflight, ret>>

\* The route's handler returns: the server sends the header with status 200
\* if the handler sent none.
handlerReturns ==
    /\ handling.running
    /\ response' = WriteHeader(response, StatusOK)
    /\ handling' = [running |-> FALSE, err |-> NoPanic]
    /\ UNCHANGED <<calls, routes, mux, muxCalls, req, res, request, inflight, ret>>

\* The handlerFunc of MultiHandle of a request served concurrently with
\* others, up to the loop of getRoute: the mux has picked the handlerFunc of
\* a static key (or answers 404 itself), and the locals of getRoute are
\* those before the first candidate.
handlerFuncBegin(method, hostPort, path) ==
    /\ LET h == muxHandler(mux, path)
       IN  inflight' = Append(inflight,
               [method |-> method, host |-> hostPort, path |-> path,
                key |-> h.key, i |-> 1, errorStatus |-> StatusNotFound,
                tried |-> <<>>, done |-> ~h.found,
                status |-> IF h.found THEN 0 ELSE StatusNotFound,
                handler |-> 0, params |-> EmptyParams])
    /\ UNCHANGED <<calls, routes, mux, muxCalls, req, res, request, response, handling, ret>>

\* One iteration of the loop of getRoute for the in-flight request r, or
\* the panic after the loop: the candidate is read from the table, and what
\* matchURLAndGetParam leaves of its receiver is what the table holds
\* afterwards.  A returned route ends the handlerFunc with setPathParams and
\* the route's handler, a panic with the answer of catchAllServerErrors.
getRouteStep(r) ==
    /\ r \in 1..Len(inflight)
    /\ ~inflight[r].done
    /\ LET f == inflight[r]
           bucket == Bucket(routes, f.key)
       IN  IF f.i > Len(bucket)
           THEN /\ inflight' = [inflight EXCEPT ![r] =
                                  [f EXCEPT !.done = TRUE, !.status = f.errorStatus]]
                /\ UNCHANGED routes
           ELSE
             LET route == bucket[f.i]
                 m == matchURLAndGetParam(route, f.host, f.path)
                 after == IF Len(route.dynamicHost) > 0
                          THEN hostTokensReversed(route, f.host).route
                          ELSE route
             IN  /\ routes' = [routes EXCEPT ![f.key][f.i] = after]
                 /\ inflight' = [inflight EXCEPT ![r] =
                      IF m.status = StatusInternalServerError
                      THEN [f EXCEPT !.done = TRUE, !.status = m.status,
                                     !.tried = Append(@, m.status)]
                      ELSE IF m.status # 0
                      THEN [f EXCEPT !.i = @ + 1,
                                     !.errorStatus = IF @ = StatusNotFound
                                                     THEN m.status ELSE @,
                                     !.tried = Append(@, m.status)]
                      ELSE IF ~acceptsMethod(route, f.method)
                      THEN [f EXCEPT !.i = @ + 1,
                                     !.errorStatus = StatusMethodNotAllowed,
                                     !.tried = Append(@, StatusMethodNotAllowed)]
                      ELSE [f EXCEPT !.done = TRUE, !.status = StatusOK,
                                     !.handler = route.handler,
                                     !.params = setPathParams(m.params),
                                     !.tried = Append(@, 0)]]
    /\ UNCHANGED <<calls, mux, muxCalls, req, res, request, response, handling, ret>>

\* ------------------------------------------------------------------------
\* Inputs.

RECURSIVE Join(_, _)
Join(parts, sep) ==
    IF Len(parts) = 0 THEN <<>>
    ELSE IF Len(parts) = 1 THEN parts[1]
    ELSE parts[1] \o <<sep>> \o Join(Tail(parts), sep)

SeqsUpTo(S, n) == UNION {[1..k -> S] : k \in 0..n}

\* Path pattern tokens: one- and two-byte literals, a required parameter,
\* two optional parameters, '*' and '**'.
LitA == <<"a">>
LitBC == <<"b", "c">>
ParamX == <<"{", "x", "}">>
OptO == <<"{", "o", "?", "}">>
OptP == <<"{", "p", "?", "}">>
Star == <<"*">>
StarStar == <<"*", "*">>

PathTokens == {LitA, LitBC, ParamX, OptO, OptP, Star, StarStar}

\* A path pattern: '/' and the tokens joined by '/', with or without a
\* trailing '/'.
PathPattern(tokens, trailing) ==
    <<"/">> \o Join(tokens, "/") \o (IF trailing /\ Len(tokens) > 0 THEN <<"/">> ELSE <<>>)

PathPatterns ==
    {PathPattern(t, tr) : t \in SeqsUpTo(PathTokens, MaxTokens), tr \in BOOLEAN}

\* Request paths as the mux hands them to a handlerFunc: clean paths (the
\* mux redirects any other), non-empty segments, with or without a trailing
\* '/'.
Segments == {LitA, LitBC}

RequestPath(segs, trailing) ==
    <<"/">> \o Join(segs, "/") \o (IF trailing /\ Len(segs) > 0 THEN <<"/">> ELSE <<>>)

RequestPaths ==
    {RequestPath(s, tr) : s \in SeqsUpTo(Segments, MaxSegs), tr \in BOOLEAN}

Localhost == <<"l", "o", "c", "a", "l", "h", "o", "s", "t">>

\* ------------------------------------------------------------------------
\* SpecPath: a server with one route for all methods and no host pattern
\* (as each test of webserver_test.go builds), any path pattern, and one
\* request of any path.  Routes are registered before the server serves; a
\* request changes nothing of the server, so the states reached by one
\* request are those reached by any number of them.
RegisterPath ==
    /\ calls = <<>>
    /\ ~res.served
    /\ \E p \in PathPatterns : MultiHandle(NilMethods, p)

ServePath ==
    /\ ~res.served
    /\ \E path \in RequestPaths : ServeHTTP("GET", Localhost, path)

NextPath == RegisterPath \/ ServePath

SpecPath == Init /\ [][NextPath]_vars

\* ------------------------------------------------------------------------
\* SpecHost: a server with one route for all methods whose pattern has the
\* host part {sub}.example.com, and one request of any host: up to
\* MaxLabels labels joined by '.', with or without a port.
Example == <<"e", "x", "a", "m", "p", "l", "e">>
Com == <<"c", "o", "m">>
Other == <<"o", "t", "h", "e", "r">>
Anything == <<"w", "w">>

SubExampleCom == <<"{", "s", "u", "b", "}", ".">> \o Example \o <<".">> \o Com

HostPatterns ==
    {SubExampleCom, SubExampleCom \o <<"/">>, SubExampleCom \o <<"/", "a">>}

HostLabels == {Example, Com, Other, Anything, <<>>}

Port == <<":", "8", "0">>

RequestHosts ==
    {Join(l, ".") \o port : l \in SeqsUpTo(HostLabels, MaxLabels), port \in {<<>>, Port}}

HostPaths == {<<"/">>, <<"/", "a">>}

RegisterHost ==
    /\ calls = <<>>
    /\ ~res.served
    /\ \E p \in HostPatterns : MultiHandle(NilMethods, p)

ServeHost ==
    /\ ~res.served
    /\ \E h \in RequestHosts, path \in HostPaths : ServeHTTP("GET", h, path)

NextHost == RegisterHost \/ ServeHost

SpecHost == Init /\ [][NextHost]_vars

\* ------------------------------------------------------------------------
\* SpecBucket: a server with up to MaxRoutes routes, for all methods (nil),
\* for an empty list of methods or for one method, over two static keys, and
\* one request of any of three methods.
BucketPatterns ==
    {<<"/">> \o ParamX,
     <<"/">> \o ParamX \o <<"/">> \o Star,
     <<"/">> \o OptO,
     Anything \o <<"/">> \o ParamX,
     <<"/", "a">>,
     <<"/", "a", "/">> \o ParamX \o <<"/">> \o LitBC}

BucketMethods ==
    {NilMethods, MethodList(<<>>), MethodList(<<"GET">>), MethodList(<<"POST">>)}

RequestMethods == {"GET", "POST", "PUT"}

BucketPaths ==
    {<<"/">>, <<"/", "a">>, <<"/", "b", "c">>, <<"/", "a", "/", "a", "/", "b", "c">>,
     <<"/", "b", "c", "/", "a">>}

RegisterBucket ==
    /\ Len(calls) < MaxRoutes
    /\ ~res.served
    /\ \E p \in BucketPatterns, m \in BucketMethods : MultiHandle(m, p)

ServeBucket ==
    /\ ~res.served
    /\ \E m \in RequestMethods, path \in BucketPaths : ServeHTTP(m, Localhost, path)

NextBucket == RegisterBucket \/ ServeBucket

SpecBucket == Init /\ [][NextBucket]_vars

\* ------------------------------------------------------------------------
\* SpecCatchAll: a server with one route for all methods, registered as
\* ListenAndServe and Serve register their handler ("/**"), or with one of
\* two neighbouring patterns, and one request of any method, host and path.
CatchAllPatterns ==
    {<<"/">> \o StarStar, <<"/">> \o StarStar \o <<"/">>, <<"/">> \o Star}

CatchAllHosts ==
    {<<>>, Localhost, Localhost \o Port, Anything \o <<".">> \o Example \o <<".">> \o Com,
     <<".">> \o Com}

RegisterCatchAll ==
    /\ calls = <<>>
    /\ ~res.served
    /\ \E p \in CatchAllPatterns : MultiHandle(NilMethods, p)

ServeCatchAll ==
    /\ ~res.served
    /\ \E m \in RequestMethods, h \in CatchAllHosts, path \in RequestPaths :
          ServeHTTP(m, h, path)

NextCatchAll == RegisterCatchAll \/ ServeCatchAll

SpecCatchAll == Init /\ [][NextCatchAll]_vars

\* ------------------------------------------------------------------------
\* SpecParams: a server with one route for all methods whose pattern binds
\* the names d (host) and x (path), one request with a query string and a
\* body of up to MaxPairs pairs each over the names x, d and q, and the
\* route's handler asking for the parameters.
ParamD == <<"{", "d", "}">>

ParamPatterns ==
    {ParamD \o <<"/">> \o ParamX, ParamD \o <<"/">> \o LitA, <<"/">> \o ParamX,
     <<"/">> \o LitA}

QueryPairs ==
    {<<"x", "=", "1">>, <<"d", "=", "2">>, <<"q", "=", "3", "+", "4">>, <<"q">>}

BodyPairs == {<<"x", "=", "5">>, <<"d", "=", "6">>, <<"q", "=", "7">>}

RawQueries == {Join(q, "&") : q \in SeqsUpTo(QueryPairs, MaxPairs)}

Bodies == {Join(b, "&") : b \in SeqsUpTo(BodyPairs, MaxPairs)}

ContentTypes == {ContentTypeFormUrlEncoded, "text/plain"}

ParamPaths == {<<"/", "a">>, <<"/", "b", "c">>}

RegisterParams ==
    /\ calls = <<>>
    /\ ~res.served
    /\ \E p \in ParamPatterns : MultiHandle(NilMethods, p)

ServeParams ==
    /\ ~res.served
    /\ \E m \in {"POST", "PUT"}, path \in ParamPaths, q \in RawQueries,
          ct \in ContentTypes, b \in Bodies :
          handlerFunc(m, Localhost, path, q, ct, b)

NextParams == RegisterParams \/ ServeParams \/ parseParams

SpecParams == Init /\ [][NextParams]_vars

\* ------------------------------------------------------------------------
\* SpecConcurrent: a server with up to MaxRoutes routes, one of them with a
\* host pattern, registered before the server serves, and up to MaxInflight
\* requests whose getRoute loops interleave in any order.
MaxInflight == 2

ConcurrentRoutes ==
    {[methods |-> NilMethods, pattern |-> SubExampleCom \o <<"/">>],
     [methods |-> MethodList(<<"GET">>), pattern |-> <<"/">> \o ParamX],
     [methods |-> NilMethods, pattern |-> <<"/", "a">>]}

ConcurrentHosts == {Localhost, Anything \o <<".">> \o Example \o <<".">> \o Com}

RegisterConcurrent ==
    /\ Len(calls) < MaxRoutes
    /\ inflight = <<>>
    /\ \E c \in ConcurrentRoutes : MultiHandle(c.methods, c.pattern)

ServeConcurrent ==
    /\ calls # <<>>
    /\ Len(inflight) < MaxInflight
    /\ \E m \in {"GET", "POST"}, h \in ConcurrentHosts, path \in HostPaths :
          handlerFuncBegin(m, h, path)

ResolveConcurrent == \E r \in 1..Len(inflight) : getRouteStep(r)

NextConcurrent == RegisterConcurrent \/ ServeConcurrent \/ ResolveConcurrent

SpecConcurrent == Init /\ [][NextConcurrent]_vars

\* ------------------------------------------------------------------------
\* SpecStream: a server with one route, one request whose client may go
\* away at any time, on a connection that can flush or cannot, and the
\* route's handler asking IsDone, flushing up to MaxWritten bytes, and
\* returning or panicking with a *serverError or with another value.
MaxWritten == 2

StreamRoutes ==
    {[methods |-> MethodList(<<"GET">>), pattern |-> <<"/">> \o ParamX],
     [methods |-> NilMethods, pattern |-> <<"/">> \o ParamX \o <<"/">> \o Star]}

StreamPaths == {<<"/">>, <<"/", "a">>, <<"/", "b", "c", "/", "a">>}

HandlerPanics == {NewHTTPError(StatusBadRequest), NewError, RuntimeError}

RegisterStream ==
    /\ calls = <<>>
    /\ ~res.served
    /\ \E c \in StreamRoutes : MultiHandle(c.methods, c.pattern)

ServeStream ==
    /\ ~res.served
    /\ \E m \in {"GET", "POST"}, path \in StreamPaths, cancelled \in BOOLEAN,
          isFlusher \in BOOLEAN :
          serve(m, Localhost, path, <<>>, "", <<>>, cancelled, isFlusher)

FlushStream ==
    /\ Len(response.written) < MaxWritten
    /\ callFlush(<<"e">>)

PanicStream == \E err \in HandlerPanics : handlerPanics(err)

NextStream ==
    \/ RegisterStream
    \/ ServeStream
    \/ Cancel
    \/ callIsDone
    \/ FlushStream
    \/ PanicStream
    \/ handlerReturns

SpecStream == Init /\ [][NextStream]_vars

\* ------------------------------------------------------------------------
\* SpecBody: a server with one literal route for all methods, one POST or
\* PUT request with a body of up to MaxPairs pairs, form-encoded or plain
\* text, and the route's handler asking for the body and for the parameters
\* in any order, any number of times.
RegisterBody ==
    /\ calls = <<>>
    /\ ~res.served
    /\ MultiHandle(NilMethods, <<"/">> \o LitA)

ServeBody ==
    /\ ~res.served
    /\ \E m \in {"POST", "PUT"}, ct \in ContentTypes, b \in Bodies :
          handlerFunc(m, Localhost, <<"/">> \o LitA, <<>>, ct, b)

NextBody == RegisterBody \/ ServeBody \/ Body \/ parseParams

SpecBody == Init /\ [][NextBody]_vars

\* ------------------------------------------------------------------------
\* The vocabulary of the claims: patterns and paths as the specification
\* describes them, independent of how the code compiles and matches them.

DropLeadingSlash(s) == IF Len(s) > 0 /\ s[1] = "/" THEN Tail(s) ELSE s

DropTrailingSlash(s) ==
    IF Len(s) > 0 /\ s[Len(s)] = "/" THEN SubSeq(s, 1, Len(s) - 1) ELSE s

\* A path or path pattern with one leading and one trailing '/' trimmed.
TrimOne(s) == DropTrailingSlash(DropLeadingSlash(s))

\* The '/'-separated parts of a path: the path "/" is one empty part.
PartsOf(s) == Split(TrimOne(s), "/")

\* The segments a path or pattern supplies: none for "/".
SegsOf(s) == IF TrimOne(s) = <<>> THEN <<>> ELSE PartsOf(s)

HasHostPart(pattern) == Len(pattern) = 0 \/ pattern[1] # "/"

IsParamToken(t) == Len(t) >= 2 /\ t[1] = "{" /\ t[Len(t)] = "}"

IsOptionalToken(t) == IsParamToken(t) /\ Len(t) >= 3 /\ t[Len(t) - 1] = "?"

IsRequiredToken(t) == IsParamToken(t) /\ ~IsOptionalToken(t)

IsStarToken(t) == t = <<"*">>

IsStarStarToken(t) == t = <<"*", "*">>

IsLiteralToken(t) == Len(t) > 0 /\ \A i \in 1..Len(t) : t[i] \notin {"{", "}", "*", "?"}

\* The name of a parameter token.
NameOf(t) == IF IsOptionalToken(t) THEN SubSeq(t, 2, Len(t) - 2) ELSE SubSeq(t, 2, Len(t) - 1)

\* A token that takes one segment takes this one.
TokenTakes(t, seg) ==
    \/ IsLiteralToken(t) /\ seg = t
    \/ IsStarToken(t)
    \/ IsOptionalToken(t)
    \/ IsRequiredToken(t) /\ seg # <<>>

\* A literal-only pattern: no host part, no '{', no '*'.
IsLiteralOnly(pattern) ==
    /\ ~HasHostPart(pattern)
    /\ \A i \in 1..Len(pattern) : pattern[i] \notin {"{", "*"}

\* The methods of a registration accept a method.
CallAccepts(call, method) ==
    call.methods.isNil \/ \E i \in 1..Len(call.methods.list) : call.methods.list[i] = method

\* The number of trailing optional parameter tokens of a token sequence.
RECURSIVE TrailingOptionals(_)
TrailingOptionals(tokens) ==
    IF Len(tokens) > 0 /\ IsOptionalToken(tokens[Len(tokens)])
    THEN 1 + TrailingOptionals(SubSeq(tokens, 1, Len(tokens) - 1))
    ELSE 0

\* A path with a single trailing '/' added or removed ("/" is left alone).
ToggleSlash(s) ==
    IF Len(s) <= 1 THEN s
    ELSE IF s[Len(s)] = "/" THEN SubSeq(s, 1, Len(s) - 1)
    ELSE s \o <<"/">>

\* The server that a sequence of MultiHandle calls builds.
RECURSIVE ServerOf(_, _)
ServerOf(cs, n) ==
    IF n = 0 THEN [routes |-> [k \in {} |-> <<>>], mux |-> [p \in {} |-> <<>>]]
    ELSE Registered(ServerOf(cs, n - 1), cs[n].methods, cs[n].pattern, n)

\* The parts of the request path aligned with the dynamic tokens of a route:
\* those after the parts of its static key.
StaticCount(key) == IF key = <<>> THEN 0 ELSE Len(Split(key, "/"))

DynamicParts(path, key) ==
    LET all == PartsOf(path)
        n == StaticCount(key)
    IN  IF n = 0 THEN all ELSE SubSeq(all, n + 1, Len(all))

C2_TrailingSlashInsensitive ==
    res.served =>
      /\ Respond(routes, mux, req.method, req.host, ToggleSlash(req.path)) = res
      /\ \A i \in 1..Len(calls) :
           LET cs == [calls EXCEPT ![i].pattern = ToggleSlash(@)]
               s == ServerOf(cs, Len(cs))
           IN  Respond(s.routes, s.mux, req.method, req.host, req.path) = res

\* C2's case: pattern "/a/{x}/" serves "/a/bc" and binds x.
C2_Witness ==
    /\ res.served
    /\ Len(calls) = 1
    /\ calls[1].pattern = <<"/", "a", "/", "{", "x", "}", "/">>
    /\ req.path = <<"/", "a", "/", "b", "c">>
    /\ res.status = StatusOK
    /\ DOMAIN res.params = {<<"x">>}

\* A candidate route whose matching arrives at a required parameter aligned
\* with a part of the path that is present and empty.
RequiredAtEmptyPart(route) ==
    /\ matchHost(route, req.host).status = 0
    /\ LET dp == DynamicParts(req.path, route.staticPattern)
           tp == route.dynamicPattern
       IN  \E j \in 1..Len(tp) :
             /\ IsRequiredToken(tp[j])
             /\ j <= Len(dp)
             /\ dp[j] = <<>>
             /\ \A m \in 1..(j - 1) : TokenTakes(tp[m], dp[m])

C4_TrailingOptionalsOmitted ==
    res.served =>
      \A i \in 1..Len(calls) :
        LET t == SegsOf(calls[i].pattern)
            k == TrailingOptionals(t)
            s == SegsOf(req.path)
        IN  ( /\ ~HasHostPart(calls[i].pattern)
              /\ Len(calls) = 1
              /\ CallAccepts(calls[i], req.method)
              /\ k >= 1
              /\ Len(s) = Len(t) - k
              /\ \A m \in 1..Len(s) :
                   /\ IsLiteralToken(t[m]) \/ IsRequiredToken(t[m])
                   /\ TokenTakes(t[m], s[m]) )
            => /\ res.status = StatusOK
               /\ res.handler = i
               /\ \A m \in (Len(s) + 1)..Len(t) : NameOf(t[m]) \notin DOMAIN res.params

\* C5 as claimed: when the path ends just before a required parameter (the
\* tokens before it take the parts of the path), the route is not matched
\* and the request is answered 404.
C5_AbsentRequiredIsNotFound ==
    res.served =>
      \A i \in 1..Len(calls) :
        LET t == SegsOf(calls[i].pattern)
            s == PartsOf(req.path)
        IN  ( /\ ~HasHostPart(calls[i].pattern)
              /\ Len(calls) = 1
              /\ Len(s) < Len(t)
              /\ IsRequiredToken(t[Len(s) + 1])
              /\ \A m \in 1..Len(s) : TokenTakes(t[m], s[m]) )
            => /\ res.handler # i
               /\ res.status = StatusNotFound

\* C6 as claimed: a pattern that ends with '**' after literal, required and
\* '*' tokens matches every path that supplies a segment for each of them
\* (the literal ones equal), with or without more segments.
C6_WildcardAllMatchesAnyRemainder ==
    res.served =>
      \A i \in 1..Len(calls) :
        LET t == SegsOf(calls[i].pattern)
            s == SegsOf(req.path)
            n == Len(t) - 1
        IN  ( /\ ~HasHostPart(calls[i].pattern)
              /\ Len(calls) = 1
              /\ CallAccepts(calls[i], req.method)
              /\ Len(t) >= 1
              /\ IsStarStarToken(t[Len(t)])
              /\ Len(s) >= n
              /\ \A m \in 1..n :
                   /\ IsLiteralToken(t[m]) \/ IsRequiredToken(t[m]) \/ IsStarToken(t[m])
                   /\ TokenTakes(t[m], s[m]) )
            => /\ res.status = StatusOK
               /\ res.handler = i

\* C7 as claimed: a route is not matched when the path has no part at the
\* position of one of its '*' tokens, nor (without '**') when the path has
\* more segments than the pattern has tokens.
C7_StarTakesExactlyOne ==
    res.served =>
      \A i \in 1..Len(calls) :
        LET t == SegsOf(calls[i].pattern)
            s == PartsOf(req.path)
        IN  ( /\ ~HasHostPart(calls[i].pattern)
              /\ \/ \E j \in 1..Len(t) : IsStarToken(t[j]) /\ Len(s) < j
                 \/ /\ \A j \in 1..Len(t) : ~IsStarStarToken(t[j])
                    /\ \E j \in 1..Len(t) : IsStarToken(t[j])
                    /\ Len(SegsOf(req.path)) > Len(t) )
            => res.handler # i

\* The host of a Host header, its port removed.
HostWithoutPort(h) ==
    IF \E i \in 1..Len(h) : h[i] = ":"
    THEN SubSeq(h, 1, (CHOOSE i \in 1..Len(h) : h[i] = ":" /\ \A j \in (i + 1)..Len(h) : h[j] # ":") - 1)
    ELSE h

\* One non-empty label followed by ".example.com".
IsSubOfExampleCom(h) ==
    LET l == Split(HostWithoutPort(h), ".")
    IN  Len(l) = 3 /\ l[1] # <<>> /\ l[2] = Example /\ l[3] = Com

\* The host part and the path part of a pattern with a host part.
HostPartOf(pattern) ==
    IF \E i \in 1..Len(pattern) : pattern[i] = "/"
    THEN SubSeq(pattern, 1, (CHOOSE i \in 1..Len(pattern) :
                               pattern[i] = "/" /\ \A j \in 1..(i - 1) : pattern[j] # "/") - 1)
    ELSE pattern

PathPartOf(pattern) == SubSeq(pattern, Len(HostPartOf(pattern)) + 1, Len(pattern))

\* C8: a route with host pattern {sub}.example.com and a literal path, asked
\* for that path, is resolved iff the host, its port removed, is one
\* non-empty label followed by ".example.com"; the hosts example.com and
\* ww.other.com are answered 404.
C8_HostPatternMatchesSubdomain ==
    res.served =>
      \A i \in 1..Len(calls) :
        ( /\ Len(calls) = 1
          /\ HostPartOf(calls[i].pattern) = SubExampleCom
          /\ CallAccepts(calls[i], req.method)
          /\ TrimOne(PathPartOf(calls[i].pattern)) = TrimOne(req.path) )
        => /\ (res.status = StatusOK /\ res.handler = i) <=> IsSubOfExampleCom(req.host)
           /\ HostWithoutPort(req.host) \in
                {Example \o <<".">> \o Com, Anything \o <<".">> \o Other \o <<".">> \o Com}
                => res.status = StatusNotFound

\* C8's case: the host ww.example.com:80 is matched.
C8_Witness ==
    /\ res.served
    /\ Len(calls) = 1
    /\ calls[1].pattern = SubExampleCom \o <<"/", "a">>
    /\ req.host = Anything \o <<".">> \o Example \o <<".">> \o Com \o Port
    /\ req.path = <<"/", "a">>
    /\ res.status = StatusOK
    /\ res.handler = 1

\* C9: when the bucket of the request holds the same pattern registered
\* twice, under two different single methods, and the host and path of the
\* request match it, a request of either method is resolved to the handler
\* registered for that method, and a request of another method is answered
\* 405.
C9_MethodFiltering ==
    res.served =>
      \A i \in 1..Len(calls) : \A j \in (i + 1)..Len(calls) :
        LET ri == newRoute(calls[i].methods, calls[i].pattern, i)
        IN  ( /\ calls[i].pattern = calls[j].pattern
              /\ ~calls[i].methods.isNil /\ Len(calls[i].methods.list) = 1
              /\ ~calls[j].methods.isNil /\ Len(calls[j].methods.list) = 1
              /\ calls[i].methods.list[1] # calls[j].methods.list[1]
              /\ res.key = ri.staticPattern
              /\ Len(Bucket(routes, res.key)) = 2
              /\ matchURLAndGetParam(ri, req.host, req.path).status = 0 )
            => /\ req.method = calls[i].methods.list[1]
                    => res.status = StatusOK /\ res.handler = i
               /\ req.method = calls[j].methods.list[1]
                    => res.status = StatusOK /\ res.handler = j
               /\ req.method \notin {calls[i].methods.list[1], calls[j].methods.list[1]}
                    => res.status = StatusMethodNotAllowed /\ res.handler = 0

\* C9's case: the second registration serves its method.
C9_Witness ==
    /\ res.served
    /\ Len(calls) = 2
    /\ calls[1].pattern = calls[2].pattern
    /\ calls[1].methods = MethodList(<<"GET">>)
    /\ calls[2].methods = MethodList(<<"POST">>)
    /\ req.method = "POST"
    /\ res.status = StatusOK
    /\ res.handler = 2

\* The outcomes of the candidates of the request's bucket, each taken alone.
CandidateOutcomes ==
    LET b == Bucket(routes, res.key)
    IN  {candidateStatus(b[k], req.method, req.host, req.path) : k \in 1..Len(b)}

\* C10 as claimed: when no candidate of the bucket fully matches, the error
\* answered is 405 if a candidate matched host and path and rejected the
\* method, else 400 if a candidate failed on an empty parameter value, else
\* 404, in whatever order the candidates were registered.
C10_ErrorPriority ==
    (res.served /\ muxHandler(mux, req.path).found /\ 0 \notin CandidateOutcomes)
      => res.status =
           IF StatusMethodNotAllowed \in CandidateOutcomes THEN StatusMethodNotAllowed
           ELSE IF StatusBadRequest \in CandidateOutcomes THEN StatusBadRequest
           ELSE StatusNotFound

\* The candidates of the request's bucket that match host and path and
\* accept the method, by position in the bucket.
FullMatches ==
    LET b == Bucket(routes, res.key)
    IN  {k \in 1..Len(b) : candidateStatus(b[k], req.method, req.host, req.path) = 0}

\* The calls registered under a static key, in registration order.
RECURSIVE CallsOfKey(_, _)
CallsOfKey(key, n) ==
    IF n = 0 THEN <<>>
    ELSE IF newRoute(calls[n].methods, calls[n].pattern, n).staticPattern = key
    THEN Append(CallsOfKey(key, n - 1), n)
    ELSE CallsOfKey(key, n - 1)

\* C11 as claimed: a bucket holds its routes in the order they were added,
\* and a request whose bucket has a candidate that matches host and path and
\* accepts the method is resolved to the earliest such candidate, no later
\* candidate being tried.
C11_FirstFullMatchWins ==
    (res.served /\ muxHandler(mux, req.path).found) =>
      LET b == Bucket(routes, res.key)
      IN  /\ [k \in 1..Len(b) |-> b[k].handler] = CallsOfKey(res.key, Len(calls))
          /\ FullMatches # {} =>
               LET f == CHOOSE k \in FullMatches : \A m \in FullMatches : k <= m
               IN  /\ res.status = StatusOK
                   /\ res.handler = b[f].handler
                   /\ Len(res.tried) = f

\* C12 as claimed: a request is resolved to a route or answered one of the
\* three classified errors, never a runtime fault (500).
C12_NoRuntimeFault ==
    res.served =>
      res.status \in {StatusOK, StatusNotFound, StatusBadRequest, StatusMethodNotAllowed}

\* The labels of a host pattern and of a request host, left to right.
HostTokensOf(pattern) == Split(HostPartOf(pattern), ".")

HostLabelsOf(h) == Split(HostWithoutPort(h), ".")

\* C13 as claimed: when a route is resolved, every parameter of its host
\* pattern is bound to the label of the request host at its position, also
\* when the path part of the route is literal-only.
C13_HostParamsBound ==
    res.served =>
      \A i \in 1..Len(calls) :
        ( /\ res.status = StatusOK
          /\ res.handler = i
          /\ HasHostPart(calls[i].pattern) )
        => LET t == HostTokensOf(calls[i].pattern)
               l == HostLabelsOf(req.host)
           IN  \A j \in 1..Len(t) :
                 (IsParamToken(t[j]) /\ j <= Len(l) /\ l[j] # <<>>)
                 => /\ NameOf(t[j]) \in DOMAIN res.params
                    /\ res.params[NameOf(t[j])] = <<l[j]>>

\* The registration of ListenAndServe and Serve: "/**" for all methods.
CatchAllCall == [methods |-> NilMethods, pattern |-> <<"/">> \o StarStar]

\* C14: the route "/**" for all methods is compiled to the empty static key
\* and the single token '**', and when it is the only route of the server
\* every request is resolved to it with no binding.
C14_CatchAll ==
    calls = <<CatchAllCall>> =>
      /\ DOMAIN routes = {<<>>}
      /\ routes[<<>>] = <<[dynamicHost |-> <<>>, staticPattern |-> <<>>,
                           dynamicPattern |-> <<StarStar>>, methods |-> NilMethods,
                           handler |-> 1]>>
      /\ res.served =>
           /\ res.status = StatusOK
           /\ res.handler = 1
           /\ DOMAIN res.params = {}

\* C14's case: the catch-all serves PUT /a/bc/a for the host ww.example.com.
C14_Witness ==
    /\ calls = <<CatchAllCall>>
    /\ res.served
    /\ req.method = "PUT"
    /\ req.host = Anything \o <<".">> \o Example \o <<".">> \o Com
    /\ req.path = <<"/", "a", "/", "b", "c", "/", "a">>
    /\ res.status = StatusOK
    /\ res.handler = 1

\* The positions of the parameter tokens of a pattern that a path binds: the
\* token is not behind a '**', and the path has a non-empty segment there.
BoundPositions(t, s) ==
    {j \in 1..Len(t) :
       /\ IsParamToken(t[j])
       /\ \A m \in 1..(j - 1) : ~IsStarStarToken(t[m])
       /\ j <= Len(s)
       /\ s[j] # <<>>}

\* C15 as claimed: when a route without host part is resolved, the bindings
\* are exactly name -> segment for the parameter tokens whose aligned
\* segment is present and non-empty.
C15_BindingsExact ==
    res.served =>
      \A i \in 1..Len(calls) :
        ( /\ res.status = StatusOK
          /\ res.handler = i
          /\ ~HasHostPart(calls[i].pattern) )
        => LET t == SegsOf(calls[i].pattern)
               s == SegsOf(req.path)
               b == BoundPositions(t, s)
           IN  /\ DOMAIN res.params = {NameOf(t[j]) : j \in b}
               /\ \A n \in DOMAIN res.params :
                    \E j \in b : NameOf(t[j]) = n /\ res.params[n] = <<s[j]>>

\* A '**' token of the pattern is reached: the tokens before it take the
\* segments of the path at their positions.
StarStarReached(t, s) ==
    \E k \in 1..Len(t) :
      /\ IsStarStarToken(t[k])
      /\ k - 1 <= Len(s)
      /\ \A m \in 1..(k - 1) : TokenTakes(t[m], s[m])

\* C16: a route without host part is never matched by a path with more
\* segments than the pattern has tokens when no '**' is reached, and the
\* request is answered 404 when it is the only route.
C16_ExcessSegmentsNotFound ==
    res.served =>
      \A i \in 1..Len(calls) :
        LET t == SegsOf(calls[i].pattern)
            s == SegsOf(req.path)
        IN  ( /\ ~HasHostPart(calls[i].pattern)
              /\ Len(s) > Len(t)
              /\ ~StarStarReached(t, s) )
            => /\ res.handler # i
               /\ Len(calls) = 1 => res.status = StatusNotFound

\* C16's case: pattern "/" against path "/bc/a", and the candidate was
\* tried.
C16_Witness ==
    /\ res.served
    /\ Len(calls) = 1
    /\ calls[1].pattern = <<"/">>
    /\ req.path = <<"/", "b", "c", "/", "a">>
    /\ res.tried = <<StatusNotFound>>
    /\ res.status = StatusNotFound

\* C17 as claimed: a request whose host and path match a route registered
\* with a nil or an empty methods list is never answered 405.
C17_NoMethodsAcceptsAll ==
    res.served =>
      LET b == Bucket(routes, res.key)
      IN  \A k \in 1..Len(b) :
            ( /\ b[k].methods.isNil \/ b[k].methods.list = <<>>
              /\ matchURLAndGetParam(b[k], req.host, req.path).status = 0 )
            => res.status # StatusMethodNotAllowed

\* The static key a registration is filed under.
KeyOfCall(i) == newRoute(calls[i].methods, calls[i].pattern, i).staticPattern

\* The static keys whose bucket serves a path: the path is "/" + key, or
\* goes on after "/" + key + "/" (after "/" for the empty key).
KeysServing(path) ==
    {KeyOfCall(i) : i \in 1..Len(calls)} \cap
      {k \in {SubSeq(path, 2, n) : n \in 1..Len(path)} :
         \/ path = <<"/">> \o k
         \/ k = <<>>
         \/ (Len(path) > Len(k) + 1 /\ path[Len(k) + 2] = "/")}

\* The calls of the bucket selected for a path: those filed under the
\* longest static key serving it.
SelectedCalls(path) ==
    LET serving == KeysServing(path)
        longest == {k \in serving : \A l \in serving : Len(l) <= Len(k)}
    IN  {i \in 1..Len(calls) : KeyOfCall(i) \in longest}

\* C19: a request is resolved only to a route of the bucket selected for
\* its path, and no more candidates are tried than that bucket holds.
C19_BucketIsolation ==
    res.served =>
      LET selected == SelectedCalls(req.path)
      IN  /\ res.handler # 0 => res.handler \in selected
          /\ Len(res.tried) <= Cardinality(selected)

\* C19's case: the request is refused by its bucket although a route of
\* another bucket matches its host and path and accepts its method.
C19_Witness ==
    /\ res.served
    /\ res.status = StatusMethodNotAllowed
    /\ \E i \in 1..Len(calls) :
         /\ i \notin SelectedCalls(req.path)
         /\ candidateStatus(newRoute(calls[i].methods, calls[i].pattern, i),
                            req.method, req.host, req.path) = 0

\* C20 as claimed: a candidate with host pattern {sub}.example.com that the
\* request host does not match fails with 404, never with 400, whatever the
\* host is, and the request is answered 404 when it is the only route.
C20_HostFailureIsNotFound ==
    res.served =>
      \A i \in 1..Len(calls) :
        ( /\ HostPartOf(calls[i].pattern) = SubExampleCom
          /\ ~IsSubOfExampleCom(req.host) )
        => /\ candidateStatus(newRoute(calls[i].methods, calls[i].pattern, i),
                              req.method, req.host, req.path) = StatusNotFound
           /\ Len(calls) = 1 => res.status = StatusNotFound

\* The names a request can bind in SpecParams.
ParamNames == {<<"d">>, <<"x">>, <<"q">>}

\* The value the resolved route's pattern binds to a name from the host and
\* the path of the request: a one-element list, empty when it binds none.
PatternBinding(name) ==
    LET pattern == calls[res.handler].pattern
        ht == IF HasHostPart(pattern) THEN HostTokensOf(pattern) ELSE <<>>
        hl == HostLabelsOf(req.host)
        pt == SegsOf(IF HasHostPart(pattern) THEN PathPartOf(pattern) ELSE pattern)
        ps == SegsOf(req.path)
        hb == {hl[j] : j \in {j \in BoundPositions(ht, hl) : NameOf(ht[j]) = name}}
        pb == {ps[j] : j \in {j \in BoundPositions(pt, ps) : NameOf(pt[j]) = name}}
    IN  IF hb \cup pb = {} THEN <<>> ELSE <<CHOOSE v \in hb \cup pb : TRUE>>

\* The values a query string or form body gives a name, in order.
ValuesOf(text, name) ==
    LET m == ParseQuery(text) IN IF name \in DOMAIN m THEN m[name] ELSE <<>>

\* The values the body of the request gives a name: those of a form-encoded
\* body.
BodyValuesOf(name) ==
    IF request.contentType = ContentTypeFormUrlEncoded
    THEN ValuesOf(req.body, name)
    ELSE <<>>

\* C18 as claimed: once the handler has asked for a parameter, Params(name)
\* lists the host or path binding of the name, then its query values, then
\* its body values, and Param(name) is the first of them.
C18_UnifiedParams ==
    (res.served /\ res.status = StatusOK /\ request.readParams) =>
      \A name \in ParamNames :
        LET all == PatternBinding(name) \o ValuesOf(request.rawQuery, name)
                     \o BodyValuesOf(name)
        IN  /\ Params(name) = all
            /\ Param(name) = IF all = <<>> THEN <<>> ELSE all[1]

\* The names of the parameter tokens of a pattern, host part and path part.
NamesOfPattern(pattern) ==
    LET ht == IF HasHostPart(pattern) THEN HostTokensOf(pattern) ELSE <<>>
        pt == SegsOf(IF HasHostPart(pattern) THEN PathPartOf(pattern) ELSE pattern)
    IN  {NameOf(ht[j]) : j \in {j \in 1..Len(ht) : IsParamToken(ht[j])}}
          \cup {NameOf(pt[j]) : j \in {j \in 1..Len(pt) : IsParamToken(pt[j])}}

\* C21: the bindings of a resolved request hold only names of the pattern of
\* the route it is resolved to, whatever the candidates tried before it
\* captured.
C21_NoLeakedBindings ==
    (res.served /\ res.status = StatusOK) =>
      DOMAIN res.params \subseteq NamesOfPattern(calls[res.handler].pattern)

\* C21's case: the first candidate "/{x}" captures x and rejects the method,
\* the second candidate "/{o?}" is returned and binds o only.
C21_Witness ==
    /\ res.served
    /\ Len(calls) = 2
    /\ calls[1].pattern = <<"/">> \o ParamX
    /\ calls[2].pattern = <<"/">> \o OptO
    /\ res.tried = <<StatusMethodNotAllowed, 0>>
    /\ res.handler = 2
    /\ DOMAIN res.params = {<<"o">>}

\* C22: resolution only reads the route table: whatever the interleaving of
\* the getRoute loops of concurrent requests, the table and the mux stay
\* those the registrations built, and each finished request has the status,
\* handler, bindings and candidate outcomes it gets when resolved alone.
C22_ResolutionReadOnly ==
    LET s == ServerOf(calls, Len(calls))
    IN  /\ routes = s.routes
        /\ mux = s.mux
        /\ \A r \in 1..Len(inflight) :
              inflight[r].done =>
                LET f == inflight[r]
                    alone == Respond(s.routes, s.mux, f.method, f.host, f.path)
                IN  /\ f.status = alone.status
                    /\ f.handler = alone.handler
                    /\ f.params = alone.params
                    /\ f.tried = alone.tried

\* Two requests in flight on a table of two routes of one bucket: the second
\* was resolved to the host route while the first, which the host route
\* rejected, is in the middle of its loop.
C22_Witness ==
    /\ Len(calls) = 2
    /\ Len(inflight) = 2
    /\ ~inflight[1].done
    /\ inflight[1].i = 2
    /\ inflight[1].tried = <<StatusNotFound>>
    /\ inflight[2].done
    /\ inflight[2].status = StatusOK
    /\ inflight[2].handler = 1
    /\ inflight[2].host # inflight[1].host

\* C23 as claimed: when the tokens before a '**' token take the segments of
\* the path at their positions, a route without host part matches, whatever
\* segments remain (none included) and whatever tokens follow the '**', and
\* its bindings are those of the parameter tokens before the '**'.
C23_WildcardAllIsTerminal ==
    res.served =>
      \A i \in 1..Len(calls) :
        LET t == SegsOf(calls[i].pattern)
            s == SegsOf(req.path)
            b == BoundPositions(t, s)
        IN  ( /\ Len(calls) = 1
              /\ ~HasHostPart(calls[i].pattern)
              /\ CallAccepts(calls[i], req.method)
              /\ StarStarReached(t, s) )
            => /\ res.status = StatusOK
               /\ res.handler = i
               /\ DOMAIN res.params = {NameOf(t[j]) : j \in b}
               /\ \A n \in DOMAIN res.params :
                    \E j \in b : NameOf(t[j]) = n /\ res.params[n] = <<s[j]>>

\* C24 as claimed: a route without host part whose pattern has an optional
\* parameter at the position where the path ends is resolved only if every
\* later token, up to a '**' if there is one, is optional: a required
\* parameter, a '*' or a literal after it is not left out.
C24_TokensAfterOmittedOptional ==
    res.served =>
      \A i \in 1..Len(calls) :
        LET t == SegsOf(calls[i].pattern)
            s == SegsOf(req.path)
            n == Len(s)
        IN  ( /\ res.status = StatusOK
              /\ res.handler = i
              /\ ~HasHostPart(calls[i].pattern)
              /\ n < Len(t)
              /\ IsOptionalToken(t[n + 1])
              /\ \A m \in 1..n : ~IsStarStarToken(t[m]) )
            => \A m \in (n + 2)..Len(t) :
                 \/ IsOptionalToken(t[m])
                 \/ \E k \in (n + 2)..m : IsStarStarToken(t[k])

\* The mux.HandleFunc calls that the first n MultiHandle calls are to make:
\* those of each static key at the first call filed under it.
RECURSIVE ExpectedMuxCalls(_)
ExpectedMuxCalls(n) ==
    IF n = 0 THEN <<>>
    ELSE
      LET key == KeyOfCall(n)
          first == \A j \in 1..(n - 1) : KeyOfCall(j) # key
      IN  ExpectedMuxCalls(n - 1) \o
            (IF ~first THEN <<>>
             ELSE IF key = <<>> THEN << <<"/">> >>
             ELSE << <<"/">> \o key, <<"/">> \o key \o <<"/">> >>)

\* C25 as claimed: the mux.HandleFunc calls made are those of each static
\* key, once, at the first route of its bucket ("/key" and, for a non-empty
\* key, "/key/"); and a request dispatched to a bucket tries every route of
\* the bucket, also those added after the first, up to the one it is
\* resolved to.
C25_RegisteredOncePerKey ==
    /\ muxCalls = ExpectedMuxCalls(Len(calls))
    /\ (res.served /\ muxHandler(mux, req.path).found) =>
         LET c == CallsOfKey(res.key, Len(calls))
         IN  \A k \in 1..Len(c) :
               \/ Len(res.tried) >= k
               \/ res.handler # 0 /\ \E m \in 1..(k - 1) : c[m] = res.handler

\* The static key of the route that a MultiHandle step files.
OpenedKey ==
    LET c == calls'[Len(calls')]
    IN  newRoute(c.methods, c.pattern, Len(calls')).staticPattern

\* A MultiHandle step that files its route under a static key that had no
\* bucket before.
OpensBucket ==
    /\ Len(calls') = Len(calls) + 1
    /\ \A j \in 1..Len(calls) : KeyOfCall(j) # OpenedKey

\* The path lies under a static key: it is "/" + key or goes on after
\* "/" + key + "/" (every path lies under the empty key).
LiesUnder(path, key) ==
    \/ key = <<>>
    \/ path = <<"/">> \o key
    \/ IsPrefix(<<"/">> \o key \o <<"/">>, path)

\* C26 as claimed: a MultiHandle step that opens a bucket changes the
\* outcome of no request that was resolved to a route before the step.
C26_RegistrationMonotone ==
    [][OpensBucket =>
         \A m \in RequestMethods, path \in BucketPaths :
           LET before == Respond(routes, mux, m, Localhost, path)
               after == Respond(routes', mux', m, Localhost, path)
           IN  before.status = StatusOK => after = before]_vars

\* C26 amended: a MultiHandle step that opens a bucket leaves the outcome of
\* a request that was resolved to a route before the step as it was, unless
\* the path lies under the new static key and that key is longer than the
\* key of the bucket that resolved it; such a request is from then on
\* resolved among the routes of the new bucket only.
C26_MonotoneOutsideNewKey ==
    [][OpensBucket =>
         \A m \in RequestMethods, path \in BucketPaths :
           LET before == Respond(routes, mux, m, Localhost, path)
               after == Respond(routes', mux', m, Localhost, path)
               key == OpenedKey
           IN  before.status = StatusOK =>
                 IF LiesUnder(path, key) /\ Len(key) > Len(before.key)
                 THEN /\ after.key = key
                      /\ after.handler \in {0, Len(calls')}
                 ELSE after = before]_vars

\* C26's case: the second route opened the bucket "a"; the request /bc was
\* resolved to the first route before, and is still; the request /a was
\* resolved to the first route before, and is now refused by the new bucket.
C26_Witness ==
    /\ Len(calls) = 2
    /\ KeyOfCall(1) = <<>>
    /\ KeyOfCall(2) = <<"a">>
    /\ res.served
    /\ req.path = <<"/", "b", "c">>
    /\ res.status = StatusOK
    /\ res.handler = 1
    /\ LET s == ServerOf(calls, 1)
       IN  /\ Respond(s.routes, s.mux, req.method, req.host, req.path) = res
           /\ Respond(s.routes, s.mux, req.method, req.host, <<"/", "a">>).status = StatusOK
           /\ Respond(routes, mux, req.method, req.host, <<"/", "a">>).status # StatusOK

\* C27 as claimed: the handler of a route runs for a request exactly when
\* getRoute returns that route, and no other handler runs; when resolution
\* fails, no handler runs and the status answered is 404, 400 or 405.
C27_OneHandlerOrClassifiedError ==
    (res.served /\ muxHandler(mux, req.path).found) =>
      LET r == getRoute(routes, req.method, res.key, req.host, req.path)
      IN  /\ res.handler # 0 <=> r.status = 0
          /\ r.status = 0 => res.handler = Bucket(routes, res.key)[r.index].handler
          /\ r.status # 0 =>
               /\ res.handler = 0
               /\ res.status \in {StatusNotFound, StatusBadRequest, StatusMethodNotAllowed}

\* The status catchAllServerErrors is to answer a panic with: that of a
\* *serverError, 500 for any other value.
StatusOfPanic(err) ==
    IF err.kind = "serverError" THEN err.statusCode ELSE StatusInternalServerError

\* C28 as claimed: when the handlerFunc has ended with a panic, raised by
\* resolution or by the route's handler, the handlerFunc has ended, the
\* status of the response is that of the panic if the request was not done,
\* and no error response was written if it was.
C28_PanicAnswered ==
    handling.err.kind # "nil" =>
      LET code == StatusOfPanic(handling.err)
      IN  /\ ~handling.running
          /\ request.isDone => ~(response.wroteHeader /\ response.status = code)
          /\ ~request.isDone => (response.wroteHeader /\ response.status = code)

\* C28 amended: as claimed, except that a response whose header the handler
\* had sent before it panicked keeps the status sent (200 here: the first
\* flush sent it).
C28_PanicAnsweredUnlessHeaderSent ==
    handling.err.kind # "nil" =>
      LET code == StatusOfPanic(handling.err)
      IN  /\ ~handling.running
          /\ request.isDone => ~(response.wroteHeader /\ response.status = code)
          /\ ~request.isDone =>
               /\ response.wroteHeader
               /\ response.status = IF response.written = <<>> THEN code ELSE StatusOK

\* C28's cases: a handler that panics with a *serverError of status 400
\* after it has flushed a byte, the request not being done; the status of
\* the response is 200.
C28_Witness ==
    /\ handling.err = NewHTTPError(StatusBadRequest)
    /\ ~handling.running
    /\ ~request.isDone
    /\ response.written = <<"e">>
    /\ response.status = StatusOK

\* C29 as claimed: for a request with a form-encoded body, every Body call
\* returns the body the client sent, whether the parameters were asked for
\* before it or not, and the parameters, once parsed, have the values of
\* the body whether Body was called before or not.
C29_BodyOrderIndependent ==
    request.contentType = ContentTypeFormUrlEncoded =>
      /\ ret.op = "Body" => ret.bytes = req.body
      /\ request.readParams =>
           \A name \in ParamNames : Params(name) = ValuesOf(req.body, name)

\* The last call of the handler was IsDone, and it returned true.
IsDoneReturnedTrue == ret.op = "IsDone" /\ ret.done

\* The last call of the handler, if it was IsDone, returned true, and if it
\* was a flush, returned an error and wrote nothing.
CallOfDoneRequest ==
    /\ ret.op = "IsDone" => ret.done
    /\ ret.op = "Flush" => (ret.failed /\ ret.wrote = 0)

\* C30: once IsDone has returned true, every later IsDone call returns true
\* and every later Flush, FlushText or FlushEvent call returns an error and
\* writes no byte.
C30_DoneIsLatched == [](IsDoneReturnedTrue => []CallOfDoneRequest)

\* C30's case: the handler flushed a byte, the client went away, and a later
\* flush of the handler returned an error and wrote nothing.
C30_Witness ==
    /\ handling.running
    /\ request.isDone
    /\ response.written = <<"e">>
    /\ ret.op = "Flush"
    /\ ret.failed
    /\ ret.wrote = 0

====
